---- MODULE Spec2Model ----
(***************************************************************************)
(* A model of humblebundle-rss (src/index.ts): the scraping pipeline       *)
(* fetchBundles (fetch, marker extraction, JSON parse, schema validation,  *)
(* flatten, sort), filterByCategory, the two renderers generateRss and     *)
(* generateHomepage, and the Bun.serve dispatcher with its two handlers.   *)
(*                                                                         *)
(* Representation.                                                         *)
(*  - A JavaScript string that is rendered (a product field, an entity) is *)
(*    a sequence of atoms: an atom is one of the metacharacters & < > " '  *)
(*    or a chunk of text that contains none of them.                       *)
(*  - A point in time is Num(ms), milliseconds counted from                *)
(*    2024-01-01T00:00:00Z (so that the values stay within 32 bits), or    *)
(*    NaN (the time value of an Invalid Date).                             *)
(*  - The fetched HTML is a sequence of tokens: the marker's opening tag,  *)
(*    a closing script tag, other text, whitespace, or a JSON document.    *)
(*  - A rendered document is the record of its elements.                   *)
(***************************************************************************)
EXTENDS Integers, Sequences, FiniteSets, TLC

VARIABLES pc, url, fetches, upstream, resp, arg, ret

serverVars == <<pc, url, fetches, upstream, resp>>
callVars == <<arg, ret>>
vars == <<pc, url, fetches, upstream, resp, arg, ret>>

(***************************************************************************)
(* Bounds of the model                                                     *)
(***************************************************************************)
NumReq == 2
MaxLen == 3
MaxProducts == 3
MaxSections == 2
MaxHtml == 4
MaxNowSteps == 6

(***************************************************************************)
(* Strings and time values                                                 *)
(***************************************************************************)
MetaChars == {"&", "<", ">", "\"", "'"}

Num(n) == [nan |-> FALSE, ms |-> n]
NaN == [nan |-> TRUE, ms |-> 0]

\* Date strings and the time value `new Date(s).getTime()` gives them,
\* in ms from 2024-01-01T00:00:00Z.
DateTable ==
  [ s \in { "2024-01-01T00:00:00Z", "2024-01-01T12:00:00Z", "2024-01-02T00:00:00Z",
            "2024-01-02T00:00:00.001Z", "2024-01-05T04:00:00Z", "2024-01-08T00:00:00Z",
            "2024-01-08T00:00:00.001Z", "2024-01-10T00:00:00Z", "2024-01-11T00:00:00Z" } |->
      CASE s = "2024-01-01T00:00:00Z"     -> 0
        [] s = "2024-01-01T12:00:00Z"     -> 12 * 3600 * 1000
        [] s = "2024-01-02T00:00:00Z"     -> 24 * 3600 * 1000
        [] s = "2024-01-02T00:00:00.001Z" -> 24 * 3600 * 1000 + 1
        [] s = "2024-01-05T04:00:00Z"     -> 100 * 3600 * 1000
        [] s = "2024-01-08T00:00:00Z"     -> 168 * 3600 * 1000
        [] s = "2024-01-08T00:00:00.001Z" -> 168 * 3600 * 1000 + 1
        [] s = "2024-01-10T00:00:00Z"     -> 216 * 3600 * 1000
        [] s = "2024-01-11T00:00:00Z"     -> 240 * 3600 * 1000 ]

\* new Date(str).getTime(): NaN for a string that is no date.
getTime(str) ==
  IF Len(str) = 1 /\ str[1] \in DOMAIN DateTable THEN Num(DateTable[str[1]]) ELSE NaN

\* a - b on time values: NaN as soon as one operand is NaN.
Minus(a, b) == IF a.nan \/ b.nan THEN NaN ELSE Num(a.ms - b.ms)

(***************************************************************************)
(* RSS generation                                                          *)
(***************************************************************************)
RECURSIVE replaceAll(_, _, _)
\* str.replace(/ch/g, ent)
replaceAll(str, ch, ent) ==
  IF str = <<>> THEN <<>>
  ELSE (IF Head(str) = ch THEN ent ELSE <<Head(str)>>) \o replaceAll(Tail(str), ch, ent)

\* escapeXml with the ampersand pass last: the entities' own & escaped again.
escapeXmlAmpLast(str) ==
  replaceAll(replaceAll(replaceAll(replaceAll(replaceAll(str,
    "<", <<"&", "lt;">>), ">", <<"&", "gt;">>), "\"", <<"&", "quot;">>),
    "'", <<"&", "apos;">>), "&", <<"&", "amp;">>)

escapeXml(str) ==
  replaceAll(replaceAll(replaceAll(replaceAll(replaceAll(str,
    "&", <<"&", "amp;">>), "<", <<"&", "lt;">>), ">", <<"&", "gt;">>),
    "\"", <<"&", "quot;">>), "'", <<"&", "apos;">>)

HUMBLE_ORIGIN == <<"https://www.humblebundle.com">>
HUMBLE_BUNDLES_URL == <<"https://www.humblebundle.com/bundles">>

\* toUTCString / toLocaleDateString("en-US", long month): the formatted date
\* is kept as the format applied to the time value.
toUTCString(t) == [fmt |-> "utc", t |-> t]
toLocaleDateString(t) == [fmt |-> "en-US long", t |-> t]

\* One <item> of the feed (the body of products.map).
RssItem(product) ==
  LET link == HUMBLE_ORIGIN \o product["product_url"]
      pubDate == toUTCString(getTime(product["start_date|datetime"]))
      endDate == getTime(product["end_date|datetime"])
  IN [ title |-> escapeXml(product["tile_name"]),
       link |-> escapeXml(link),
       description |->
         [ cdata |-> TRUE,
           img |-> product["tile_image"],
           blurb |-> product["detailed_marketing_blurb"],
           ends |-> toLocaleDateString(endDate) ],
       pubDate |-> pubDate,
       guid |-> escapeXml(product["machine_name"]),
       category |-> escapeXml(product["tile_stamp"]) ]

generateRss(products, title, canonicalUrl) ==
  [ kind |-> "rss",
    title |-> escapeXml(title),
    link |-> HUMBLE_BUNDLES_URL,
    self |-> canonicalUrl,
    items |-> [i \in 1..Len(products) |-> RssItem(products[i])] ]

(***************************************************************************)
(* HTML homepage                                                           *)
(***************************************************************************)
escapeHtml(str) ==
  replaceAll(replaceAll(replaceAll(replaceAll(str,
    "&", <<"&", "amp;">>), "<", <<"&", "lt;">>), ">", <<"&", "gt;">>),
    "\"", <<"&", "quot;">>)

MsPerHour == 1000 * 60 * 60
UrgentHours == 24
SoonHours == 168

\* hoursLeft = (end - now) / MsPerHour is compared with 0, 24 and 168; the
\* division by a positive constant keeps the order, so the comparisons are
\* made on the milliseconds.  Every comparison with NaN is false.
statusClass(endDate, now) ==
  LET msLeft == Minus(endDate, Num(now))
      le(h) == ~msLeft.nan /\ msLeft.ms <= h * MsPerHour
      gt(h) == ~msLeft.nan /\ msLeft.ms > h * MsPerHour
  IN IF le(UrgentHours) /\ gt(0) THEN "urgent"
     ELSE IF le(SoonHours) THEN "soon"
     ELSE "ok"

HomeEntry(p, now) ==
  LET link == HUMBLE_ORIGIN \o p["product_url"]
      endDate == getTime(p["end_date|datetime"])
  IN [ class |-> statusClass(endDate, now),
       cat |-> escapeHtml(p["tile_stamp"]),
       href |-> escapeHtml(link),
       title |-> escapeHtml(p["tile_name"]),
       text |-> escapeHtml(p["tile_name"]) ]

generateHomepage(products, now) ==
  [ kind |-> "html",
    entries |-> [i \in 1..Len(products) |-> HomeEntry(products[i], now)] ]

(***************************************************************************)
(* Zod schemas                                                             *)
(***************************************************************************)
\* JSON values
JStr(s) == [ty |-> "str", s |-> s]
JNum == [ty |-> "num"]
JNull == [ty |-> "null"]
JArr(e) == [ty |-> "arr", e |-> e]
JObj(f) == [ty |-> "obj", f |-> f]

ProductKeys ==
  { "machine_name", "tile_name", "product_url", "detailed_marketing_blurb",
    "tile_image", "start_date|datetime", "end_date|datetime", "tile_stamp" }

\* z.url(): the string parses as an absolute URL, a scheme and something after it.
IsUrl(s) == Len(s) >= 2 /\ s[1] \in {"https:", "http:"}

\* ProductSchema with tile_image a plain z.string().
ProductSchemaNoUrlCheck(v) ==
  /\ v.ty = "obj"
  /\ \A k \in ProductKeys : k \in DOMAIN v.f /\ v.f[k].ty = "str"

ProductSchema(v) ==
  /\ v.ty = "obj"
  /\ \A k \in ProductKeys :
       /\ k \in DOMAIN v.f
       /\ v.f[k].ty = "str"
       /\ (k = "tile_image" => IsUrl(v.f[k].s))

SectionSchema(v) ==
  /\ v.ty = "obj"
  /\ "products" \in DOMAIN v.f
  /\ v.f["products"].ty = "arr"
  /\ \A i \in 1..Len(v.f["products"].e) : ProductSchema(v.f["products"].e[i])

CategorySchema(v) ==
  /\ v.ty = "obj"
  /\ "mosaic" \in DOMAIN v.f
  /\ v.f["mosaic"].ty = "arr"
  /\ \A i \in 1..Len(v.f["mosaic"].e) : SectionSchema(v.f["mosaic"].e[i])

Categories == {"books", "games", "software"}

\* .optional(): a missing key passes, a present one must match.
DataSchema(v) ==
  /\ v.ty = "obj"
  /\ \A c \in Categories : c \in DOMAIN v.f => CategorySchema(v.f[c])

LandingPageSchema(v) ==
  /\ v.ty = "obj"
  /\ "data" \in DOMAIN v.f
  /\ DataSchema(v.f["data"])

\* The typed Product a validated product object parses to (unknown keys are
\* stripped).
Product(v) == [k \in ProductKeys |-> v.f[k].s]

(***************************************************************************)
(* Fetching & Parsing                                                      *)
(***************************************************************************)
Open == [t |-> "open"]
Close == [t |-> "close"]
Text == [t |-> "text"]
Ws == [t |-> "ws"]
Doc(v) == [t |-> "doc", v |-> v]

Min(S) == CHOOSE x \in S : \A y \in S : x <= y
Max(S) == CHOOSE x \in S : \A y \in S : x >= y

\* html.match(SCRIPT_TAG_REGEX) with a greedy group: up to the last closing tag.
SCRIPT_TAG_REGEX_Greedy(html) ==
  LET n == Len(html)
      starts == {i \in 1..n : html[i] = Open /\ \E j \in (i+1)..n : html[j] = Close}
  IN IF starts = {} THEN [found |-> FALSE, group |-> <<>>]
     ELSE LET i == Min(starts)
              j == Max({k \in (i+1)..n : html[k] = Close})
          IN [found |-> TRUE, group |-> SubSeq(html, i + 1, j - 1)]

\* html.match(SCRIPT_TAG_REGEX): the leftmost position where the opening tag
\* matches and a closing tag follows; the lazy group [\s\S]*? grows until the
\* first closing tag.
SCRIPT_TAG_REGEX(html) ==
  LET n == Len(html)
      starts == {i \in 1..n : html[i] = Open /\ \E j \in (i+1)..n : html[j] = Close}
  IN IF starts = {} THEN [found |-> FALSE, group |-> <<>>]
     ELSE LET i == Min(starts)
              j == Min({k \in (i+1)..n : html[k] = Close})
          IN [found |-> TRUE, group |-> SubSeq(html, i + 1, j - 1)]

\* JSON.parse(text): the text is one JSON document, whitespace around it
\* allowed; anything else is a SyntaxError.
JSONparse(text) ==
  LET body == SelectSeq(text, LAMBDA tok : tok # Ws)
  IN IF Len(body) = 1 /\ body[1].t = "doc"
     THEN [ok |-> TRUE, value |-> body[1].v]
     ELSE [ok |-> FALSE, value |-> JNull]

RECURSIVE sectionProducts(_)
\* for (const section of category.mosaic) products.push(...section.products)
sectionProducts(sections) ==
  IF sections = <<>> THEN <<>>
  ELSE LET ps == Head(sections).f["products"].e
       IN [i \in 1..Len(ps) |-> Product(ps[i])] \o sectionProducts(Tail(sections))

\* [data.books, data.games, data.software]
CategoryOrder == <<"books", "games", "software">>

RECURSIVE flattenFrom(_, _)
flattenFrom(data, k) ==
  IF k > Len(CategoryOrder) THEN <<>>
  ELSE (IF CategoryOrder[k] \in DOMAIN data.f
        THEN sectionProducts(data.f[CategoryOrder[k]].f["mosaic"].e)
        ELSE <<>>) \o flattenFrom(data, k + 1)

\* flatten reading only the first section of each category.
flattenFirstSectionOnly(validated) ==
  LET data == validated.f["data"]
      first(c) == IF c \in DOMAIN data.f
                  THEN sectionProducts(SubSeq(data.f[c].f["mosaic"].e, 1, 1))
                  ELSE <<>>
  IN first("books") \o first("games") \o first("software")

\* The products collected from the validated payload, in encounter order.
flatten(validated) == flattenFrom(validated.f["data"], 1)

\* (a, b) => dateB - dateA
compareFn(a, b) ==
  Minus(getTime(b["start_date|datetime"]), getTime(a["start_date|datetime"]))

\* Array.prototype.sort's use of the comparator: its sign, NaN taken as 0.
SortCompare(a, b) ==
  LET v == compareFn(a, b)
  IN IF v.nan THEN 0 ELSE IF v.ms < 0 THEN -1 ELSE IF v.ms > 0 THEN 1 ELSE 0

\* A consistent comparator: "compares equal" is transitive (the order among
\* numbers always is).
ConsistentComparator(ps) ==
  \A i, j, k \in 1..Len(ps) :
    SortCompare(ps[i], ps[j]) = 0 /\ SortCompare(ps[j], ps[k]) = 0
      => SortCompare(ps[i], ps[k]) = 0

\* x put behind every element that does not have to come after it.
InsertStable(sorted, x) ==
  LET later == {i \in 1..Len(sorted) : SortCompare(sorted[i], x) > 0}
      at == IF later = {} THEN Len(sorted) + 1 ELSE Min(later)
  IN SubSeq(sorted, 1, at - 1) \o <<x>> \o SubSeq(sorted, at, Len(sorted))

RECURSIVE StableSort(_)
StableSort(ps) ==
  IF ps = <<>> THEN <<>>
  ELSE InsertStable(StableSort(SubSeq(ps, 1, Len(ps) - 1)), ps[Len(ps)])

Rearrangements(ps) ==
  { [i \in 1..Len(ps) |-> ps[f[i]]] :
      f \in {g \in [1..Len(ps) -> 1..Len(ps)] : \A i, j \in 1..Len(ps) : i # j => g[i] # g[j]} }

\* products.sort(compareFn): a stable sort when the comparator is consistent;
\* with an inconsistent comparator (an Invalid Date among different dates)
\* the order is implementation-defined, any rearrangement.
sortOutcomes(ps) ==
  IF ConsistentComparator(ps) THEN {StableSort(ps)} ELSE Rearrangements(ps)

filterByCategory(products, category) ==
  SelectSeq(products, LAMBDA p : p["tile_stamp"] = category)

Failure(stage, ran, text, message) ==
  [ ok |-> FALSE, stage |-> stage, ran |-> ran, text |-> text, message |-> message,
    products |-> <<>> ]

NotFoundMessage == "Could not find landingPage-json-data script tag"

\* fetchBundles from `const html = await response.text()` on: the outcomes,
\* one per order the sort can leave.  `ran` lists the stages entered and
\* `text` is match[1], the text handed to JSON.parse.
bundlesOfHtml(html) ==
  LET match == SCRIPT_TAG_REGEX(html)
  IN IF ~match.found \/ match.group = <<>>
     THEN {Failure("extract", <<"extract">>, <<>>, NotFoundMessage)}
     ELSE LET rawData == JSONparse(match.group)
          IN IF ~rawData.ok
             THEN {Failure("parse", <<"extract", "parse">>, match.group, "JSON Parse error")}
             ELSE IF ~LandingPageSchema(rawData.value)
             THEN {Failure("validate", <<"extract", "parse", "validate">>, match.group,
                           "ZodError: Invalid input")}
             ELSE { [ ok |-> TRUE, stage |-> "done",
                      ran |-> <<"extract", "parse", "validate", "flatten", "sort">>,
                      text |-> match.group, message |-> "", products |-> sorted ] :
                    sorted \in sortOutcomes(flatten(rawData.value)) }

(***************************************************************************)
(* Inputs                                                                  *)
(***************************************************************************)
Str(n, alphabet) == UNION {[1..k -> alphabet] : k \in 0..n}

MkProduct(name, title, path, start, end, stamp) ==
  [k \in ProductKeys |->
     CASE k = "machine_name" -> name
       [] k = "tile_name" -> title
       [] k = "product_url" -> path
       [] k = "detailed_marketing_blurb" -> <<"<", "b", ">", "Pay ", "&", " play">>
       [] k = "tile_image" -> <<"https:", "//hb.imgix.net/tile.png">>
       [] k = "start_date|datetime" -> start
       [] k = "end_date|datetime" -> end
       [] k = "tile_stamp" -> stamp]

Sku1 ==
  MkProduct(<<"sku1">>, <<"Cool ", "&", " Fun Game">>, <<"/games/sku1">>,
            <<"2024-01-01T00:00:00Z">>, <<"2024-01-10T00:00:00Z">>, <<"games">>)
Sku2 ==
  MkProduct(<<"sku2">>, <<"Books ", "<", "2024", ">">>, <<"/books/sku2">>,
            <<"2024-01-01T00:00:00Z">>, <<"2024-01-08T00:00:00Z">>, <<"books">>)
Sku3 ==
  MkProduct(<<"sku3">>, <<"Dev Tools">>, <<"/software/sku3">>,
            <<"2024-01-02T00:00:00Z">>, <<"2024-01-11T00:00:00Z">>, <<"software">>)
Sku4 ==
  MkProduct(<<"sku4">>, <<"Mystery">>, <<"/other/sku4">>,
            <<"soon">>, <<"2024-01-05T04:00:00Z">>, <<"bundle">>)

ProductPool == {Sku1, Sku2, Sku3, Sku4}

JProduct(p) == JObj([k \in ProductKeys |-> JStr(p[k])])

\* The products of js that sit in slot k; slots are (category, section)
\* pairs in payload order and `slot` is nondecreasing.
InSlot(js, slot, k) ==
  LET I == {i \in 1..Len(js) : slot[i] = k}
  IN IF I = {} THEN <<>> ELSE [i \in 1..Cardinality(I) |-> js[Min(I) + i - 1]]

\* A payload whose products, read category by category (books, games,
\* software), section by section, are js.  A category without products is
\* left out when sparse, and has empty sections otherwise.
MkPayload(js, slot, sparse) ==
  LET cats == <<"books", "games", "software">>
      slotsOf(c) == {(c - 1) * MaxSections + s : s \in 1..MaxSections}
      present == {c \in 1..3 : ~sparse \/ \E i \in 1..Len(js) : slot[i] \in slotsOf(c)}
      section(c, s) == JObj([products |-> JArr(InSlot(js, slot, (c - 1) * MaxSections + s))])
      category(c) == JObj([mosaic |-> JArr([s \in 1..MaxSections |-> section(c, s)])])
  IN JObj([data |-> JObj([name \in {cats[c] : c \in present} |->
                            category(CHOOSE c \in present : cats[c] = name)])])

Page(doc) == <<Text, Open, Doc(doc), Close, Text>>

\* Layouts of n products: the first a in books, up to the b-th in games, the
\* rest in software.  Spread: one product per section (the last section
\* takes the rest) and no empty category in the payload; otherwise all of a
\* category in its last section and every category present.
Layouts(n) ==
  { [ slot |-> [i \in 1..n |->
                  LET c == IF i <= x[1] THEN 1 ELSE IF i <= x[2] THEN 2 ELSE 3
                      j == IF i <= x[1] THEN i ELSE IF i <= x[2] THEN i - x[1] ELSE i - x[2]
                  IN (c - 1) * MaxSections + (IF x[3] /\ j < MaxSections THEN j ELSE MaxSections)],
      sparse |-> x[3] ] :
    x \in {y \in (0..n) \X (0..n) \X BOOLEAN : y[1] <= y[2]} }

\* Valid payloads of up to MaxProducts products.
ValidArgs ==
  { [ fn |-> "fetchBundles", family |-> "valid", products |-> x[1],
      html |-> Page(MkPayload([i \in 1..Len(x[1]) |-> JProduct(x[1][i])], x[2].slot, x[2].sparse)) ] :
    x \in UNION { [1..n -> ProductPool] \X Layouts(n) : n \in 0..MaxProducts } }

Damage == {"drop", "number", "null", "not a url"}

Damaged(p, how, key) ==
  CASE how = "drop" -> JObj([k \in ProductKeys \ {key} |-> JStr(p[k])])
    [] how = "number" -> JObj([k \in ProductKeys |-> IF k = key THEN JNum ELSE JStr(p[k])])
    [] how = "null" -> JNull
    [] how = "not a url" ->
         JObj([k \in ProductKeys |-> IF k = "tile_image" THEN JStr(<<"not a url">>) ELSE JStr(p[k])])

\* Payloads of well-formed products but one, which misses a field or has a
\* field of the wrong type.
DamagedArgs ==
  { [ fn |-> "fetchBundles", family |-> "damaged", products |-> x[1],
      html |-> Page(MkPayload([i \in 1..Len(x[1]) |->
                                 IF i = x[3] THEN Damaged(x[1][i], x[4], x[5]) ELSE JProduct(x[1][i])],
                              x[2], TRUE)) ] :
    x \in UNION { [1..n -> {Sku1, Sku2}] \X {[i \in 1..n |-> 3], [i \in 1..n |-> i]}
                    \X (1..n) \X Damage \X ProductKeys : n \in 1..MaxProducts } }

\* Payloads of the wrong overall shape.
Misshapen ==
  { JNull, JArr(<<>>), JObj(<<>>), JObj([data |-> JNull]),
    JObj([data |-> JObj([games |-> JNull])]),
    JObj([data |-> JObj([games |-> JObj(<<>>)])]),
    JObj([data |-> JObj([games |-> JObj([mosaic |-> JObj(<<>>)])])]),
    JObj([data |-> JObj([games |-> JObj([mosaic |-> JArr(<<JObj(<<>>)>>)])])]),
    JObj([data |-> JObj([books |-> JObj([mosaic |-> JArr(<<JObj([products |-> JArr(<<JProduct(Sku2)>>)])>>)]),
                         games |-> JObj([mosaic |-> JArr(<<JObj([products |-> JNum])>>)])])]) }

GoodDoc == MkPayload(<<JProduct(Sku1)>>, <<3>>, TRUE)

\* Pages as token sequences, the marker anywhere or nowhere.
HtmlArgs ==
  { [fn |-> "fetchBundles", family |-> "html", products |-> <<>>, html |-> h] :
    h \in Str(MaxHtml, {Open, Close, Text, Ws, Doc(GoodDoc)}) }
  \cup
  { [fn |-> "fetchBundles", family |-> "misshapen", products |-> <<>>, html |-> Page(d)] :
    d \in Misshapen }

NoCall == [kind |-> "none"]

ServerIdle ==
  /\ pc = [r \in 1..NumReq |-> "idle"]
  /\ url = [r \in 1..NumReq |-> [pathname |-> "", search |-> ""]]
  /\ fetches = [r \in 1..NumReq |-> 0]
  /\ upstream = [r \in 1..NumReq |-> [got |-> "nothing"]]
  /\ resp = [r \in 1..NumReq |-> [status |-> 0]]

(***************************************************************************)
(* fetchBundles and filterByCategory on their own                          *)
(***************************************************************************)
InitPipeline ==
  /\ ServerIdle
  /\ arg \in ValidArgs \cup DamagedArgs \cup HtmlArgs
  /\ ret = NoCall

\* fetchBundles() on a page the upstream answered with status 200.
CallFetchBundles ==
  /\ arg.fn = "fetchBundles"
  /\ ret = NoCall
  /\ \E out \in bundlesOfHtml(arg.html) : ret' = [kind |-> "bundles", out |-> out]
  /\ UNCHANGED <<arg, pc, url, fetches, upstream, resp>>

\* filterByCategory(products, category) on the list fetchBundles returned.
CallFilterByCategory(category) ==
  /\ ret.kind = "bundles"
  /\ ret.out.ok
  /\ ret' = [ kind |-> "filtered", out |-> ret.out, category |-> category,
              products |-> filterByCategory(ret.out.products, category) ]
  /\ UNCHANGED <<arg, pc, url, fetches, upstream, resp>>

NextPipeline ==
  \/ CallFetchBundles
  \/ \E c \in Categories : CallFilterByCategory(<<c>>)

SpecPipeline == InitPipeline /\ [][NextPipeline]_vars

(***************************************************************************)
(* Properties of fetchBundles and filterByCategory                         *)
(***************************************************************************)
Count(seq, x) == Cardinality({i \in 1..Len(seq) : seq[i] = x})

Returned == arg.fn = "fetchBundles" /\ ret.kind \in {"bundles", "filtered"}

\* C4: for a valid payload of N products the list fetchBundles returns has
\* length N and holds every product as often as the payload does (absent
\* categories skipped, duplicates kept), and filterByCategory(list, C) holds
\* exactly the items of the list whose tile_stamp is C, in the list's order.
C4_FlattenAndFilterExact ==
  /\ (Returned /\ arg.family = "valid") =>
       /\ ret.out.ok
       /\ Len(ret.out.products) = Len(arg.products)
       /\ \A p \in ProductPool : Count(ret.out.products, p) = Count(arg.products, p)
  /\ (arg.fn = "fetchBundles" /\ ret.kind = "filtered") =>
       /\ \A p \in ProductPool :
            Count(ret.products, p) =
              IF p["tile_stamp"] = ret.category THEN Count(ret.out.products, p) ELSE 0
       /\ \E f \in [1..Len(ret.products) -> 1..Len(ret.out.products)] :
            /\ \A i, j \in 1..Len(ret.products) : i < j => f[i] < f[j]
            /\ \A i \in 1..Len(ret.products) : ret.products[i] = ret.out.products[f[i]]
       /\ (ret.category \in {<<"games">>, <<"books">>, <<"software">>}
             => Count(ret.products, Sku4) = 0)

C4_Witness ==
  /\ arg.fn = "fetchBundles" /\ arg.family = "valid"
  /\ arg.products = <<Sku1, Sku4, Sku1>>
  /\ ret.kind = "filtered" /\ ret.category = <<"games">>
  /\ ret.products = <<Sku1, Sku1>>
  /\ Count(ret.out.products, Sku4) = 1

StartOf(p) == getTime(p["start_date|datetime"])

\* C5: the list fetchBundles returns is ordered by parsed start date-time,
\* newest first, and items with the same start timestamp keep their
\* encounter order (books, games, software; sections, then products, in
\* list order).
C5_SortedDescendingStable ==
  (Returned /\ arg.family = "valid") =>
    LET out == ret.out.products
    IN /\ \A i, j \in 1..Len(out) :
            (i < j /\ ~StartOf(out[i]).nan /\ ~StartOf(out[j]).nan)
              => StartOf(out[i]).ms >= StartOf(out[j]).ms
       /\ \A p \in ProductPool :
            ~StartOf(p).nan =>
              SelectSeq(out, LAMBDA q : StartOf(q) = StartOf(p))
                = SelectSeq(arg.products, LAMBDA q : StartOf(q) = StartOf(p))

\* C6: a payload in which one product misses a required field or has a
\* field of the wrong type (or whose overall shape is wrong) fails the
\* request at validation and hands no item on, the well-formed ones included;
\* a list is only returned for a payload that is valid as a whole.
C6_ValidatedAsAWhole ==
  Returned =>
    /\ arg.family \in {"damaged", "misshapen"} =>
         /\ ~ret.out.ok
         /\ ret.out.stage = "validate"
         /\ ret.out.products = <<>>
         /\ ret.kind # "filtered"
    /\ ret.out.ok => arg.family \in {"valid", "html"}

C6_Witness ==
  /\ arg.fn = "fetchBundles" /\ arg.family = "damaged"
  /\ Len(arg.products) = 3
  /\ ret.kind = "bundles" /\ ret.out.stage = "validate"

\* C10: a marker whose span (from the first opening tag to the first closing
\* tag after it) is empty gives the same extraction failure as no marker at
\* all, and JSON.parse is not reached; a non-empty span is handed to
\* JSON.parse as it is, ending at the first closing tag.
C10_EmptySpanIsNotFound ==
  (Returned /\ arg.family = "html") =>
    LET html == arg.html
        opens == {i \in 1..Len(html) : html[i] = Open}
        closes == {j \in 1..Len(html) : html[j] = Close /\ opens # {} /\ j > Min(opens)}
        out == ret.out
    IN IF opens = {} \/ closes = {} \/ (closes # {} /\ Min(closes) = Min(opens) + 1)
       THEN /\ ~out.ok
            /\ out.message = NotFoundMessage
            /\ out.ran = <<"extract">>
       ELSE /\ "parse" \in {out.ran[i] : i \in 1..Len(out.ran)}
            /\ out.text = [i \in 1..(Min(closes) - Min(opens) - 1) |-> html[Min(opens) + i]]

C10_Witness ==
  /\ arg.fn = "fetchBundles" /\ arg.family = "html"
  /\ arg.html = <<Open, Close, Doc(GoodDoc), Close>>
  /\ ret.kind = "bundles"
  /\ ret.out.message = NotFoundMessage

(***************************************************************************)
(* generateRss on its own                                                  *)
(***************************************************************************)
Alphabet == MetaChars \cup {"a", "amp;"}
EscapedKeys == {"tile_name", "product_url", "machine_name", "tile_stamp"}
RenderedKeys == EscapedKeys \cup {"detailed_marketing_blurb"}

\* One product, one of its rendered fields an arbitrary string.
RssArgs ==
  { [ fn |-> "generateRss", key |-> k, products |-> <<[Sku1 EXCEPT ![k] = s]>>,
      title |-> <<"Humble Bundle - All Bundles">>,
      canonicalUrl |-> <<"http://localhost:3000/rss">> ] :
    k \in RenderedKeys, s \in Str(MaxLen, Alphabet) }

InitRss ==
  /\ ServerIdle
  /\ arg \in RssArgs
  /\ ret = NoCall

CallGenerateRss ==
  /\ arg.fn = "generateRss"
  /\ ret = NoCall
  /\ ret' = [kind |-> "feed", doc |-> generateRss(arg.products, arg.title, arg.canonicalUrl)]
  /\ UNCHANGED <<arg, pc, url, fetches, upstream, resp>>

NextRss == CallGenerateRss

SpecRss == InitRss /\ [][NextRss]_vars

Entity(ch) ==
  CASE ch = "&" -> <<"&", "amp;">>
    [] ch = "<" -> <<"&", "lt;">>
    [] ch = ">" -> <<"&", "gt;">>
    [] ch = "\"" -> <<"&", "quot;">>
    [] ch = "'" -> <<"&", "apos;">>
    [] OTHER -> <<ch>>

RECURSIVE EntityForm(_)
\* Every metacharacter of str replaced, once, by its entity.
EntityForm(str) ==
  IF str = <<>> THEN <<>> ELSE Entity(Head(str)) \o EntityForm(Tail(str))

\* C7: in every item of the feed, title, link, guid and category are the
\* field (for the link: the origin followed by product_url) with each
\* & < > " ' replaced exactly once by its entity, and the description holds
\* the long description unescaped.
C7_EscapedOnce ==
  (arg.fn = "generateRss" /\ ret.kind = "feed") =>
    /\ Len(ret.doc.items) = Len(arg.products)
    /\ \A i \in 1..Len(arg.products) :
         LET p == arg.products[i]
             item == ret.doc.items[i]
         IN /\ item.title = EntityForm(p["tile_name"])
            /\ item.link = HUMBLE_ORIGIN \o EntityForm(p["product_url"])
            /\ item.guid = EntityForm(p["machine_name"])
            /\ item.category = EntityForm(p["tile_stamp"])
            /\ item.description.cdata
            /\ item.description.blurb = p["detailed_marketing_blurb"]

C7_Witness ==
  /\ arg.fn = "generateRss"
  /\ arg.products[1]["tile_name"] = <<"<", "&", "'">>
  /\ ret.kind = "feed"
  /\ ret.doc.items[1].title = <<"&", "lt;", "&", "amp;", "&", "apos;">>

(***************************************************************************)
(* generateHomepage on its own                                             *)
(***************************************************************************)
HomeArgs ==
  { [ fn |-> "generateHomepage",
      products |-> <<[Sku1 EXCEPT !["end_date|datetime"] = <<d>>]>> ] :
    d \in DOMAIN DateTable \cup {"TBA"} }

\* Date.now(): every twelve hours from the epoch of the model, and 1 ms later.
Nows == {k * 12 * MsPerHour + e : k \in 0..MaxNowSteps, e \in {0, 1}}

InitHome ==
  /\ ServerIdle
  /\ arg \in HomeArgs
  /\ ret = NoCall

CallGenerateHomepage ==
  /\ arg.fn = "generateHomepage"
  /\ ret = NoCall
  /\ \E now \in Nows :
       ret' = [kind |-> "page", now |-> now, doc |-> generateHomepage(arg.products, now)]
  /\ UNCHANGED <<arg, pc, url, fetches, upstream, resp>>

NextHome == CallGenerateHomepage

SpecHome == InitHome /\ [][NextHome]_vars

\* The tier the spec gives an item with msLeft milliseconds to go.
Tier(end, now) ==
  IF end.nan THEN "ok"
  ELSE LET msLeft == end.ms - now
       IN IF 0 < msLeft /\ msLeft <= 24 * MsPerHour THEN "urgent"
          ELSE IF 24 * MsPerHour < msLeft /\ msLeft <= 168 * MsPerHour THEN "soon"
          ELSE "ok"

\* C1: every item is rendered, with class urgent exactly when
\* 0 < hours-remaining <= 24, soon exactly when 24 < hours-remaining <= 168,
\* and ok otherwise, an item that has already ended included.
C1_UrgencyTiers ==
  (arg.fn = "generateHomepage" /\ ret.kind = "page") =>
    /\ Len(ret.doc.entries) = Len(arg.products)
    /\ \A i \in 1..Len(arg.products) :
         ret.doc.entries[i].class =
           Tier(getTime(arg.products[i]["end_date|datetime"]), ret.now)

(***************************************************************************)
(* HTTP server                                                             *)
(***************************************************************************)
Reqs == 1..NumReq

ORIGIN == "http://localhost:3000"

Urls ==
  { [pathname |-> p, search |-> ""] :
      p \in {"/", "/rss", "/games", "/books", "/software", "/favicon.ico", "/rss/", "/Games"} }
  \cup { [pathname |-> "/rss", search |-> "?category=books"] }

\* What the upstream can answer: a status, and for a body one of these pages.
Statuses == {200, 404, 503}

Pages ==
  { [label |-> "valid", html |-> Page(MkPayload(<<JProduct(Sku2), JProduct(Sku1), JProduct(Sku4)>>,
                                               <<1, 3, 3>>, TRUE))],
    [label |-> "no marker", html |-> <<Text, Close>>],
    [label |-> "malformed", html |-> <<Open, Text, Close>>],
    [label |-> "damaged", html |-> Page(MkPayload(<<JProduct(Sku1), Damaged(Sku2, "drop", "tile_stamp")>>,
                                                 <<3, 3>>, TRUE))] }

ServerNows == {0, 215 * MsPerHour}

\* fetchBundles' outcomes on each page the upstream can send.
bundlesOfPage == [page \in Pages |-> bundlesOfHtml(page.html)]

\* The switch with /Games matched as /games.
routeIgnoringCase(path) ==
  CASE path = "/" -> "homepage"
    [] path = "/rss" -> "rss"
    [] path \in {"/games", "/Games"} -> "games"
    [] path = "/books" -> "books"
    [] path = "/software" -> "software"
    [] path = "/favicon.ico" -> "favicon"
    [] OTHER -> "default"

\* switch (path)
route(path) ==
  CASE path = "/" -> "homepage"
    [] path = "/rss" -> "rss"
    [] path = "/games" -> "games"
    [] path = "/books" -> "books"
    [] path = "/software" -> "software"
    [] path = "/favicon.ico" -> "favicon"
    [] OTHER -> "default"

PipelineRoutes == {"homepage", "rss", "games", "books", "software"}

\* response.ok taken as "no server error".
responseOkBelow500(status) == status < 500

\* response.ok
responseOk(status) == 200 <= status /\ status <= 299

\* A fetch followed by one retry.
fetchWithRetry(n) == n + 2

\* await fetch(HUMBLE_BUNDLES_URL): the fetches a request has issued.
fetch(n) == n + 1

TextBody(text) == [kind |-> "text", text |-> text]

\* handleHomepage's catch without `status: 500`.
homepageError200(message, ran) ==
  [ status |-> 200, contentType |-> "text/plain", cacheControl |-> "",
    body |-> TextBody("Error: " \o message), ran |-> ran ]

\* handleHomepage's catch
homepageError(message, ran) ==
  [ status |-> 500, contentType |-> "text/plain", cacheControl |-> "",
    body |-> TextBody("Error: " \o message), ran |-> ran ]

\* handleRssRequest's catch
rssError(message, ran) ==
  [ status |-> 500, contentType |-> "", cacheControl |-> "",
    body |-> TextBody("Error generating RSS feed: " \o message), ran |-> ran ]

catch(rt, message, ran) ==
  IF rt = "homepage" THEN homepageError(message, ran) ELSE rssError(message, ran)

\* category.charAt(0).toUpperCase() + category.slice(1)
Capitalized(category) ==
  CASE category = "games" -> "Games"
    [] category = "books" -> "Books"
    [] category = "software" -> "Software"

\* handleHomepage's try block, fetchBundles having returned products
homepageOk(products, now) ==
  [ status |-> 200, contentType |-> "text/html; charset=utf-8",
    cacheControl |-> "public, max-age=3600",
    body |-> generateHomepage(products, now),
    ran |-> <<"fetch", "extract", "parse", "validate", "flatten", "sort">> ]

\* handleRssRequest's try block, fetchBundles having returned products
rssOk(products, rt, canonicalUrl) ==
  LET listed == IF rt = "rss" THEN products ELSE filterByCategory(products, <<rt>>)
      title == IF rt = "rss" THEN "Humble Bundle - All Bundles"
               ELSE "Humble Bundle - " \o Capitalized(rt) \o " Bundles"
  IN [ status |-> 200, contentType |-> "application/rss+xml; charset=utf-8",
       cacheControl |-> "public, max-age=3600",
       body |-> generateRss(listed, <<title>>, canonicalUrl),
       ran |-> <<"fetch", "extract", "parse", "validate", "flatten", "sort">> ]

\* The handler's response to what fetchBundles came to.
respond(rt, canonicalUrl, out, now) ==
  IF ~out.ok THEN catch(rt, out.message, <<"fetch">> \o out.ran)
  ELSE IF rt = "homepage" THEN homepageOk(out.products, now)
  ELSE rssOk(out.products, rt, canonicalUrl)

Init ==
  /\ ServerIdle
  /\ arg = NoCall
  /\ ret = NoCall

\* Bun.serve's fetch(req): the switch on the path.  The favicon and the
\* default are answered at once; the other routes enter their handler, which
\* calls fetchBundles and waits for the upstream.
Receive(r, u) ==
  /\ pc[r] = "idle"
  /\ url' = [url EXCEPT ![r] = u]
  /\ LET rt == route(u.pathname)
     IN CASE rt = "favicon" ->
               /\ resp' = [resp EXCEPT ![r] =
                    [ status |-> 200, contentType |-> "image/svg+xml",
                      cacheControl |-> "public, max-age=3600",
                      body |-> [kind |-> "favicon"], ran |-> <<>> ]]
               /\ pc' = [pc EXCEPT ![r] = "done"]
               /\ UNCHANGED fetches
          [] rt = "default" ->
               /\ resp' = [resp EXCEPT ![r] =
                    [ status |-> 404, contentType |-> "", cacheControl |-> "",
                      body |-> TextBody("Not Found"), ran |-> <<>> ]]
               /\ pc' = [pc EXCEPT ![r] = "done"]
               /\ UNCHANGED fetches
          [] OTHER ->
               /\ fetches' = [fetches EXCEPT ![r] = fetch(@)]
               /\ pc' = [pc EXCEPT ![r] = "fetching"]
               /\ UNCHANGED resp
  /\ UNCHANGED <<upstream, arg, ret>>

\* The fetch is rejected (the upstream cannot be reached): fetchBundles
\* throws and the handler's catch answers.
FetchRejects(r) ==
  /\ pc[r] = "fetching"
  /\ upstream' = [upstream EXCEPT ![r] = [got |-> "rejected"]]
  /\ resp' = [resp EXCEPT ![r] =
       catch(route(url[r].pathname), "Unable to connect", <<"fetch">>)]
  /\ pc' = [pc EXCEPT ![r] = "done"]
  /\ UNCHANGED <<url, fetches, arg, ret>>

\* The upstream answers with a status: not ok, fetchBundles throws; ok, it
\* goes on to await response.text().
FetchResponds(r, status) ==
  /\ pc[r] = "fetching"
  /\ IF ~responseOk(status)
     THEN /\ upstream' = [upstream EXCEPT ![r] = [got |-> "status", status |-> status]]
          /\ resp' = [resp EXCEPT ![r] =
               catch(route(url[r].pathname),
                     "Failed to fetch Humble Bundle page: " \o ToString(status), <<"fetch">>)]
          /\ pc' = [pc EXCEPT ![r] = "done"]
     ELSE /\ upstream' = [upstream EXCEPT ![r] = [got |-> "status", status |-> status]]
          /\ pc' = [pc EXCEPT ![r] = "reading"]
          /\ UNCHANGED resp
  /\ UNCHANGED <<url, fetches, arg, ret>>

\* The body cannot be read: response.text() rejects.
TextRejects(r) ==
  /\ pc[r] = "reading"
  /\ upstream' = [upstream EXCEPT ![r] = [got |-> "broken", status |-> @.status]]
  /\ resp' = [resp EXCEPT ![r] =
       catch(route(url[r].pathname), "The socket connection was closed", <<"fetch">>)]
  /\ pc' = [pc EXCEPT ![r] = "done"]
  /\ UNCHANGED <<url, fetches, arg, ret>>

\* The body arrives: the rest of fetchBundles and of the handler run to the
\* response.
TextArrives(r, page) ==
  /\ pc[r] = "reading"
  /\ upstream' = [upstream EXCEPT ![r] =
       [got |-> "page", status |-> @.status, page |-> page]]
  /\ \E out \in bundlesOfPage[page], now \in ServerNows :
       resp' = [resp EXCEPT ![r] =
         respond(route(url[r].pathname), <<ORIGIN \o url[r].pathname>>, out, now)]
  /\ pc' = [pc EXCEPT ![r] = "done"]
  /\ UNCHANGED <<url, fetches, arg, ret>>

Next ==
  \/ \E r \in Reqs, u \in Urls : Receive(r, u)
  \/ \E r \in Reqs : FetchRejects(r)
  \/ \E r \in Reqs, status \in Statuses : FetchResponds(r, status)
  \/ \E r \in Reqs : TextRejects(r)
  \/ \E r \in Reqs, page \in Pages : TextArrives(r, page)

Spec == Init /\ [][Next]_vars

(***************************************************************************)
(* Properties of the server                                                *)
(***************************************************************************)
PipelinePaths == {"/", "/rss", "/games", "/books", "/software"}

Done(r) == pc[r] = "done"

\* The products of the page the upstream sent to r that carry the tag.
Tagged(r, tag) ==
  Cardinality({p \in {Sku1, Sku2, Sku4} :
                 upstream[r].page.label = "valid" /\ p["tile_stamp"] = <<tag>>})

\* C2: the dispatcher acts on the exact path alone: / renders the homepage
\* (200, text/html), /rss the unfiltered feed, /games, /books and /software
\* the feed of that category (200, application/rss+xml), /favicon.ico the
\* fixed SVG (200, image/svg+xml), any other path 404 Not Found; only the
\* five pipeline paths ever fetch from the upstream.
C2_ExactPathDispatch ==
  \A r \in Reqs :
    LET p == url[r].pathname
        feed(n) == /\ resp[r].contentType = "application/rss+xml; charset=utf-8"
                   /\ resp[r].body.kind = "rss"
                   /\ resp[r].body.self = <<ORIGIN \o p>>
                   /\ Len(resp[r].body.items) = n
    IN /\ pc[r] \in {"fetching", "reading"} => p \in PipelinePaths
       /\ (pc[r] # "idle" /\ p \notin PipelinePaths) => (Done(r) /\ fetches[r] = 0)
       /\ (pc[r] # "idle" /\ p \in PipelinePaths) => fetches[r] = 1
       /\ Done(r) =>
            CASE p = "/" ->
                   /\ resp[r].status \in {200, 500}
                   /\ resp[r].status = 200 =>
                        /\ resp[r].contentType = "text/html; charset=utf-8"
                        /\ resp[r].body.kind = "html"
                        /\ Len(resp[r].body.entries) = 3
              [] p = "/rss" ->
                   /\ resp[r].status \in {200, 500}
                   /\ resp[r].status = 200 => feed(3)
              [] p \in {"/games", "/books", "/software"} ->
                   /\ resp[r].status \in {200, 500}
                   /\ resp[r].status = 200 =>
                        /\ feed(Tagged(r, CHOOSE t \in Categories : "/" \o t = p))
                        /\ \A i \in 1..Len(resp[r].body.items) :
                             <<"/" \o resp[r].body.items[i].category[1]>> = <<p>>
              [] p = "/favicon.ico" ->
                   /\ resp[r].status = 200
                   /\ resp[r].contentType = "image/svg+xml"
                   /\ resp[r].body = [kind |-> "favicon"]
              [] OTHER ->
                   /\ resp[r].status = 404
                   /\ resp[r].body = TextBody("Not Found")

C2_Witness ==
  \E r, q \in Reqs :
    /\ Done(r) /\ url[r].pathname = "/games" /\ resp[r].status = 200
    /\ Len(resp[r].body.items) = 1
    /\ Done(q) /\ url[q].pathname = "/Games" /\ resp[q].status = 404

\* The request's pipeline failed: the fetch was rejected, the status was not
\* a success, the body could not be read, or the page is not a valid one.
Failed(r) ==
  /\ Done(r)
  /\ url[r].pathname \in PipelinePaths
  /\ \/ upstream[r].got \in {"rejected", "status", "broken"}
     \/ upstream[r].got = "page" /\ upstream[r].page.label # "valid"

Messages ==
  { "Unable to connect", "The socket connection was closed", NotFoundMessage,
    "JSON Parse error", "ZodError: Invalid input" }
  \cup { "Failed to fetch Humble Bundle page: " \o ToString(st) : st \in Statuses }

\* C3: on a pipeline route every failure ends in a response of status 500
\* whose body is the handler's prefix and the failure's message, text/plain
\* on the homepage and no content type on the feeds; no failed request is
\* answered with 200 or with a rendered document.
C3_FailureIs500 ==
  \A r \in Reqs :
    /\ Failed(r) =>
         /\ resp[r].status = 500
         /\ resp[r].body.kind = "text"
         /\ IF url[r].pathname = "/"
            THEN /\ resp[r].contentType = "text/plain"
                 /\ resp[r].body.text \in {"Error: " \o m : m \in Messages}
            ELSE /\ resp[r].contentType = ""
                 /\ resp[r].body.text \in {"Error generating RSS feed: " \o m : m \in Messages}
    /\ (Done(r) /\ url[r].pathname \in PipelinePaths /\ ~Failed(r)) => resp[r].status = 200
    /\ (Done(r) /\ resp[r].status = 200 /\ url[r].pathname \in PipelinePaths)
         => (upstream[r].got = "page" /\ upstream[r].page.label = "valid")

C3_Witness ==
  \E r, q \in Reqs :
    /\ Failed(r) /\ url[r].pathname = "/" /\ upstream[r].got = "page"
    /\ resp[r].body.text = "Error: JSON Parse error"
    /\ Failed(q) /\ url[q].pathname = "/books" /\ upstream[q].got = "rejected"
    /\ resp[q].status = 500

\* The responses the handler of r can give to what the upstream sent to r.
OwnResponses(r) ==
  LET rt == route(url[r].pathname)
      up == upstream[r]
  IN CASE rt = "favicon" ->
            { [ status |-> 200, contentType |-> "image/svg+xml",
                cacheControl |-> "public, max-age=3600",
                body |-> [kind |-> "favicon"], ran |-> <<>> ] }
       [] rt = "default" ->
            { [ status |-> 404, contentType |-> "", cacheControl |-> "",
                body |-> TextBody("Not Found"), ran |-> <<>> ] }
       [] OTHER ->
            CASE up.got = "rejected" -> {catch(rt, "Unable to connect", <<"fetch">>)}
              [] up.got = "broken" -> {catch(rt, "The socket connection was closed", <<"fetch">>)}
              [] up.got = "status" ->
                   {catch(rt, "Failed to fetch Humble Bundle page: " \o ToString(up.status),
                          <<"fetch">>)}
              [] up.got = "page" ->
                   { respond(rt, <<ORIGIN \o url[r].pathname>>, out, now) :
                       out \in bundlesOfPage[up.page], now \in ServerNows }
              [] OTHER -> {}

\* C8: under every interleaving a pipeline request issues exactly one fetch
\* of its own (other requests none), never a second one, and its response
\* is a response to what the upstream sent to that request, whatever the
\* other requests were sent.
C8_OneFetchOwnResult ==
  \A r \in Reqs :
    /\ fetches[r] = IF pc[r] # "idle" /\ url[r].pathname \in PipelinePaths THEN 1 ELSE 0
    /\ Done(r) => resp[r] \in OwnResponses(r)
    /\ ~Done(r) => resp[r] = [status |-> 0]

C8_Witness ==
  \E r, q \in Reqs :
    /\ r # q
    /\ Done(r) /\ Done(q)
    /\ url[r] = url[q] /\ url[r].pathname = "/rss"
    /\ fetches[r] = 1 /\ fetches[q] = 1
    /\ upstream[r].got = "status" /\ resp[r].status = 500
    /\ upstream[q].got = "page" /\ resp[q].status = 200

\* C9: the error reported is that of the first stage that fails: a status
\* that is no success fails the fetch with the status code in the message
\* and no extraction; a page without marker fails the extraction and nothing
\* is parsed; malformed JSON fails the parse; a shape violation fails the
\* validation; each is answered with a 500 that carries the message.
C9_FirstFailingStage ==
  \A r \in Reqs :
    (Done(r) /\ url[r].pathname \in PipelinePaths) =>
      LET prefix == IF url[r].pathname = "/" THEN "Error: " ELSE "Error generating RSS feed: "
          fails(message, ran) ==
            /\ resp[r].status = 500
            /\ resp[r].body = TextBody(prefix \o message)
            /\ resp[r].ran = ran
      IN /\ upstream[r].got = "status" =>
              /\ ~(upstream[r].status \in 200..299)
              /\ fails("Failed to fetch Humble Bundle page: " \o ToString(upstream[r].status),
                       <<"fetch">>)
         /\ upstream[r].got = "page" =>
              /\ upstream[r].status \in 200..299
              /\ upstream[r].page.label = "no marker" =>
                   fails(NotFoundMessage, <<"fetch", "extract">>)
              /\ upstream[r].page.label = "malformed" =>
                   fails("JSON Parse error", <<"fetch", "extract", "parse">>)
              /\ upstream[r].page.label = "damaged" =>
                   fails("ZodError: Invalid input", <<"fetch", "extract", "parse", "validate">>)

C9_Witness ==
  \E r, q \in Reqs :
    /\ Done(r) /\ url[r].pathname = "/software"
    /\ upstream[r].got = "status" /\ upstream[r].status = 503
    /\ resp[r].body.text = "Error generating RSS feed: Failed to fetch Humble Bundle page: 503"
    /\ Done(q) /\ url[q].pathname = "/"
    /\ upstream[q].got = "page" /\ upstream[q].page.label = "no marker"
    /\ resp[q].body.text = "Error: Could not find landingPage-json-data script tag"

====
